---- MODULE Spec2Model ----
(***************************************************************************)
(* DISC3D -> Metashape batch pipelines.                                    *)
(*   Method B: src/src/disc3d_batch_metashape.py                           *)
(*   Method A: src/src/disc3d_methodA_from_calibrated_xml.py               *)
(* One run of main() over a scan list; process_scan is modelled one engine *)
(* call site at a time, the engine's answer to every call being chosen     *)
(* nondeterministically (success, TypeError = signature rejected, Error =  *)
(* any other exception).                                                   *)
(***************************************************************************)
EXTENDS Integers, Sequences, FiniteSets, TLC

VARIABLES
    method,      \* "A" or "B": which of the two scripts is running
    mainpc,      \* position of main(): "config", "crs", "find", "loop", "exited"
    exitStatus,  \* process exit status once mainpc = "exited", else -1
    uncaught,    \* TRUE when an exception left process_scan and main()
    args,        \* parsed command line (argparse namespace)
    crs,         \* result of load_crs: "None" or "CRS"
    dates,       \* result of read_dates (dropped when the loop over scans starts)
    scans,       \* result of find_scans: sorted sequence of scan folders
    idx,         \* index in scans of the unit the loop is at
    ok,          \* main()'s ok counter
    results,     \* status returned by process_scan, one per unit processed
    ret,         \* (status, msg) of the latest process_scan return
    pc,          \* position inside process_scan, "idle" outside of it, "called"
                 \* at its entry
    folder,      \* what the globs of the validation found in the scan folder
                 \* (kept until the reference artifact went to the engine)
    unit,        \* locals of process_scan resolved from the scan folder
    steps,       \* status of each pipeline step of the current unit
    calls,       \* engine calls issued by the step in progress, in order
    checkpointed,\* steps followed by a doc.save() before the next step began
    sensors,     \* chunk.sensors of the current unit
    qc,          \* the QC snapshot chunk of the current unit
    gpuWrites,   \* number of writes of Metashape.app.gpu_mask in this run
    configError, \* the configuration input found faulty at startup: "none",
                 \* "root", "list", "dates" or "crs" (mm.prj the engine cannot parse)
    listFile,    \* the lines read_dates was called on (kept until load_crs ran)
    searched,    \* the tree and dates find_scans was called on (kept until the
                 \* loop over scans takes its first folder)
    pszFile      \* what models/<dataset>.psz of the unit in progress holds:
                 \* "absent", "finalized" (the completed project of an earlier
                 \* run), "current" (this run's document as last saved);
                 \* "unknown" while no unit is in progress

vars == <<method, mainpc, exitStatus, uncaught, args, crs, dates, scans, idx, ok,
          results, ret, pc, folder, unit, steps, calls, checkpointed, sensors, qc, gpuWrites,
          configError, listFile, searched, pszFile>>

\* MaxScans: scan folders below root; MaxListLines: lines of the list file;
\* MaxSensors: sensors addPhotos may create; MaxEntries: directory entries a
\* glob inside one scan folder may yield.

-----------------------------------------------------------------------------
(* Bounds of the model *)

MaxScans == 2
MaxListLines == 2
MaxSensors == 2
MaxEntries == 2

-----------------------------------------------------------------------------
(* Generic helpers *)

Last(s) == s[Len(s)]

RECURSIVE Perms(_)
\* all enumeration orders of a finite set (the order a glob yields entries in)
Perms(S) ==
    IF S = {} THEN {<<>>}
    ELSE UNION {{<<x>> \o p : p \in Perms(S \ {x})} : x \in S}

RECURSIVE SeqsUpTo(_, _)
SeqsUpTo(S, n) ==
    IF n = 0 THEN {<<>>}
    ELSE LET shorter == SeqsUpTo(S, n - 1)
         IN  shorter \cup {s \o <<x>> : s \in {t \in shorter : Len(t) = n - 1}, x \in S}

IsPrefix(p, s) == Len(p) <= Len(s) /\ SubSeq(s, 1, Len(p)) = p

IsSuffix(p, s) == Len(p) <= Len(s) /\ SubSeq(s, Len(s) - Len(p) + 1, Len(s)) = p

RECURSIVE LexLess(_, _)
\* string order on names written as sequences of character codes
LexLess(a, b) ==
    IF a = <<>> THEN b # <<>>
    ELSE IF b = <<>> THEN FALSE
    ELSE IF a[1] # b[1] THEN a[1] < b[1]
    ELSE LexLess(Tail(a), Tail(b))

-----------------------------------------------------------------------------
(* Names.  A file or folder name is a sequence of tokens; TS1 and TS2 stand  *)
(* for two strings of the form dddddddd"T"dddddd, "__" for the separator,    *)
(* u1 and u2 for two specimen identifiers, sp for a species name, x for any  *)
(* other text.  Code gives the tokens the order of their first characters.   *)

Timestamps == {"TS1", "TS2"}

Code(t) ==
    CASE t = "u1" -> 1 [] t = "u2" -> 2 [] t = "TS1" -> 3 [] t = "TS2" -> 4
      [] t = "sp" -> 5 [] t = "DISC3D" -> 6 [] t = "CC" -> 7 [] t = "__" -> 8
      [] t = "psz" -> 9 [] t = "x" -> 10 [] t = "xml" -> 11 [] OTHER -> 12

Codes(name) == [i \in 1..Len(name) |-> Code(name[i])]

\* order of pathlib.Path objects: by parent folder, then by name
PathLess(p, q) ==
    \/ p.parent < q.parent
    \/ p.parent = q.parent /\ LexLess(Codes(p.name), Codes(q.name))

RECURSIVE Insert(_, _)
Insert(x, s) ==
    IF s = <<>> THEN <<x>>
    ELSE IF PathLess(x, s[1]) THEN <<x>> \o s
    ELSE <<s[1]>> \o Insert(x, Tail(s))

RECURSIVE sorted(_)
\* Python's sorted() on a list of paths
sorted(s) == IF s = <<>> THEN <<>> ELSE Insert(s[1], sorted(Tail(s)))

-----------------------------------------------------------------------------
(* read_dates *)

RECURSIVE LStrip(_)
LStrip(line) == IF line # <<>> /\ line[1] = "SP" THEN LStrip(Tail(line)) ELSE line

RECURSIVE RStrip(_)
RStrip(line) ==
    IF line # <<>> /\ Last(line) = "SP" THEN RStrip(SubSeq(line, 1, Len(line) - 1)) ELSE line

Strip(line) == RStrip(LStrip(line))

PatMatch_Unanchored(line) == Strip(line) # <<>> /\ Strip(line)[1] \in Timestamps

\* pat = ^\s*(\d{8}T\d{6})\s*$
PatMatch(line) == Len(Strip(line)) = 1 /\ Strip(line)[1] \in Timestamps

RECURSIVE read_dates(_)
read_dates(lines) ==
    IF lines = <<>> THEN <<>>
    ELSE LET line == lines[1]
             rest == read_dates(Tail(lines))
         IN  IF Strip(line) = <<>> \/ LStrip(line)[1] = "HASH" THEN rest
             ELSE IF PatMatch(line) THEN <<Strip(line)[1]>> \o rest
             ELSE rest

\* lines a list file is made of
ListLines ==
    { <<>>, <<"SP">>, <<"TS1">>, <<"SP", "TS1", "SP">>, <<"TS2">>,
      <<"HASH", "TS1">>, <<"TS1", "x">>, <<"x">> }

ListFiles == SeqsUpTo(ListLines, MaxListLines)

-----------------------------------------------------------------------------
(* find_scans *)

ScanName == <<"TS1", "__", "u1", "__", "sp", "__", "DISC3D">>

\* entries that may exist below root: the folder ScanName inside the parent
\* folders 1..k, and entries of other shapes inside the first one
OtherEntries ==
    {[parent |-> 1, name |-> <<"TS1", "__", "u2", "__", "DISC3D">>, isDir |-> FALSE],
     [parent |-> 1, name |-> <<"x", "__", "TS1", "__", "DISC3D">>, isDir |-> TRUE],
     [parent |-> 1, name |-> <<"TS1", "x", "__", "u1", "__", "DISC3D">>, isDir |-> TRUE],
     [parent |-> 1, name |-> <<"TS1", "__", "u1", "__", "sp">>, isDir |-> TRUE]}

Trees ==
    {{[parent |-> p, name |-> ScanName, isDir |-> TRUE] : p \in 1..k} \cup o :
        k \in 0..MaxScans, o \in {x \in SUBSET OtherEntries : Cardinality(x) <= 1}}

\* root.rglob("*__DISC3D") yields the entries whose name ends in __DISC3D
RglobDisc3d(tree) == {e \in tree : IsSuffix(<<"__", "DISC3D">>, e.name)}

StartsWithDate_NoSeparator(name, ds) ==
    \E i \in 1..Len(ds) : IsPrefix(<<ds[i]>>, name)

StartsWithDate(name, ds) ==
    \E i \in 1..Len(ds) : IsPrefix(<<ds[i], "__">>, name)

\* enum: the rglob matches in the order the file system yields them
B_find_scans(enum, ds) ==
    LET Found[i \in 0..Len(enum)] ==
            IF i = 0 THEN <<>>
            ELSE LET d == enum[i]
                 IN  IF ~d.isDir THEN Found[i - 1]
                     ELSE IF ~(\E k \in 1..Len(d.name) : d.name[k] = "__") THEN Found[i - 1]
                     ELSE IF StartsWithDate(d.name, ds) THEN Found[i - 1] \o <<d>>
                     ELSE Found[i - 1]
    IN  sorted(Found[Len(enum)])

A_find_scans(enum, ds) ==
    LET hits[i \in 0..Len(enum)] ==
            IF i = 0 THEN <<>>
            ELSE LET d == enum[i]
                 IN  IF d.isDir /\ StartsWithDate(d.name, ds) THEN hits[i - 1] \o <<d>>
                     ELSE hits[i - 1]
    IN  sorted(hits[Len(enum)])

-----------------------------------------------------------------------------
(* main(): configuration *)

\* command lines the runs are started with
B_ArgChoices ==
    { [gpu |-> "None", mm_prj |-> "None"],
      [gpu |-> "0", mm_prj |-> "path"] }

A_ArgChoices ==
    { [gpu |-> "None", mm_prj |-> "None", key_limit |-> 250000, tie_limit |-> 250000,
       keep_keypoints |-> FALSE, keep_depth |-> FALSE, keep_matches |-> FALSE],
      [gpu |-> "0", mm_prj |-> "path", key_limit |-> 40000, tie_limit |-> 10000,
       keep_keypoints |-> TRUE, keep_depth |-> TRUE, keep_matches |-> FALSE],
      [gpu |-> "None", mm_prj |-> "None", key_limit |-> 250000, tie_limit |-> 250000,
       keep_keypoints |-> FALSE, keep_depth |-> FALSE, keep_matches |-> TRUE] }

\* what the path given as --mm-prj holds: nothing (no such file), an empty
\* file, a definition the engine parses, a text the engine rejects
MmPrjStates == {"missing", "empty", "valid", "invalid"}

NoRef == [parent |-> 0, name |-> <<>>]
NoUnit == [uid |-> "", nImgs |-> 0, ref |-> NoRef, psz |-> NoRef, cams_xml |-> NoRef]
NoFolder == [known |-> FALSE, nEdof |-> 0, uids |-> {}, refs |-> {}]
NoRet == [status |-> "", msg |-> ""]
NoListFile == [read |-> FALSE, lines |-> <<>>]
NoSearch == [done |-> FALSE, tree |-> {}, dates |-> <<>>]
NoQc == [exists |-> FALSE, label |-> "", enabled |-> TRUE]

Init ==
    /\ method \in {"A", "B"}
    /\ mainpc = "config"
    /\ exitStatus = -1
    /\ uncaught = FALSE
    /\ args \in (IF method = "A" THEN A_ArgChoices ELSE B_ArgChoices)
    /\ crs = "None"
    /\ dates = <<>>
    /\ scans = <<>>
    /\ idx = 1
    /\ ok = 0
    /\ results = <<>>
    /\ ret = NoRet
    /\ pc = "idle"
    /\ folder = NoFolder
    /\ unit = NoUnit
    /\ steps = [s \in {} |-> "pending"]
    /\ calls = <<>>
    /\ checkpointed = {}
    /\ sensors = <<>>
    /\ qc = NoQc
    /\ gpuWrites = 0
    /\ configError = "none"
    /\ listFile = NoListFile
    /\ searched = NoSearch
    /\ pszFile = "unknown"

unitVars == <<pc, folder, unit, steps, calls, checkpointed, sensors, qc, pszFile>>

\* sys.exit(code)
Exit(code) ==
    /\ mainpc' = "exited"
    /\ exitStatus' = code
    /\ uncaught' = FALSE

\* an exception nothing catches: the interpreter prints the traceback and the
\* process ends with status 1
Uncaught ==
    /\ mainpc' = "exited"
    /\ exitStatus' = 1
    /\ uncaught' = TRUE

B_MainConfig ==
    /\ method = "B" /\ mainpc = "config"
    /\ \E rootExists \in BOOLEAN, listExists \in BOOLEAN, gpuRaises \in BOOLEAN, lines \in ListFiles :
         IF ~rootExists
         THEN Exit(2) /\ configError' = "root" /\ UNCHANGED <<dates, gpuWrites, listFile>>
         ELSE /\ gpuWrites' = IF args.gpu # "None" /\ ~gpuRaises THEN gpuWrites + 1 ELSE gpuWrites
              /\ IF ~listExists
                 THEN Exit(2) /\ configError' = "list" /\ UNCHANGED <<dates, listFile>>
                 ELSE /\ listFile' = [read |-> TRUE, lines |-> lines]
                      /\ dates' = read_dates(lines)
                      /\ IF read_dates(lines) = <<>>
                         THEN Exit(2) /\ configError' = "dates"
                         ELSE /\ mainpc' = "crs"
                              /\ UNCHANGED <<exitStatus, uncaught, configError>>
    /\ UNCHANGED <<method, args, crs, scans, idx, ok, results, ret, unitVars, searched>>

A_MainConfig ==
    /\ method = "A" /\ mainpc = "config"
    /\ \E rootExists \in BOOLEAN, listExists \in BOOLEAN, lines \in ListFiles :
         IF ~rootExists THEN Exit(2) /\ configError' = "root" /\ UNCHANGED <<dates, listFile>>
         ELSE IF ~listExists THEN Exit(2) /\ configError' = "list" /\ UNCHANGED <<dates, listFile>>
         ELSE /\ listFile' = [read |-> TRUE, lines |-> lines]
              /\ dates' = read_dates(lines)
              /\ IF read_dates(lines) = <<>>
                 THEN Exit(2) /\ configError' = "dates"
                 ELSE /\ mainpc' = "crs"
                      /\ UNCHANGED <<exitStatus, uncaught, configError>>
    /\ UNCHANGED <<method, args, crs, scans, idx, ok, results, ret, unitVars, gpuWrites, searched>>

load_crs_Lenient(mmPrj) == IF mmPrj = "valid" THEN "CRS" ELSE "None"

\* load_crs(mm_prj); "raise" when Metashape.CoordinateSystem rejects the text
load_crs(mmPrj) ==
    IF mmPrj = "valid" THEN "CRS"
    ELSE IF mmPrj = "invalid" THEN "raise"
    ELSE "None"

MainLoadCrs ==
    /\ mainpc = "crs"
    /\ \E mmPrj \in MmPrjStates :
         LET c == IF args.mm_prj = "None" THEN "None" ELSE load_crs(mmPrj)
         IN  /\ listFile' = NoListFile
             /\ searched' = searched
             /\ configError' = IF args.mm_prj # "None" /\ mmPrj = "invalid" THEN "crs" ELSE "none"
             /\ IF c = "raise"
                THEN Uncaught /\ UNCHANGED crs
                ELSE /\ crs' = c
                     /\ mainpc' = "find"
                     /\ UNCHANGED <<exitStatus, uncaught>>
    /\ UNCHANGED <<method, args, dates, scans, idx, ok, results, ret, unitVars, gpuWrites>>

MainFindScans ==
    /\ mainpc = "find"
    /\ \E tree \in Trees :
         \E enum \in Perms(RglobDisc3d(tree)) :
            LET found == IF method = "A" THEN A_find_scans(enum, dates)
                         ELSE B_find_scans(enum, dates)
            IN  /\ scans' = found
                /\ searched' = [done |-> TRUE, tree |-> tree, dates |-> dates]
                /\ IF found = <<>>
                   THEN Exit(1) /\ UNCHANGED dates
                   ELSE /\ mainpc' = "loop"
                        /\ dates' = <<>>
                        /\ UNCHANGED <<exitStatus, uncaught>>
    /\ UNCHANGED <<method, args, crs, idx, ok, results, ret, unitVars, gpuWrites, configError,
                   listFile>>

-----------------------------------------------------------------------------
(* process_scan: shared vocabulary *)

\* the engine's answer to a call: it succeeds, rejects the call signature
\* (TypeError), or raises any other exception
Outcomes == {"ok", "TypeError", "Error"}
SaveOutcomes == {"ok", "Error"}

B_StepOrder == <<"ingest", "calibrate", "import_reference", "match_align", "qc",
                 "optimize", "build_depth", "build_mesh", "export">>
A_StepOrder == <<"ingest", "import_reference", "calibrate", "match_align",
                 "optimize", "build_depth", "build_mesh", "trim">>
StepOrder == IF method = "A" THEN A_StepOrder ELSE B_StepOrder
StepNames == {StepOrder[i] : i \in 1..Len(StepOrder)}
StepIndex(s) == CHOOSE i \in 1..Len(StepOrder) : StepOrder[i] = s

NoArgs == [defaults |-> TRUE]

EC(step, op, variant, a, out) ==
    [step |-> step, op |-> op, variant |-> variant, args |-> a, out |-> out]

\* the calls of the step in progress, extended by cs
Issue(step, cs) ==
    calls' = (IF calls # <<>> /\ calls[1].step = step THEN calls ELSE <<>>) \o cs

Mark(step, status) == steps' = [steps EXCEPT ![step] = status]

\* the exception leaves process_scan; main() has no handler around the call
Raise ==
    /\ pc' = "raised"
    /\ Uncaught
    /\ UNCHANGED <<idx, ok, results, ret>>

\* return (status, msg)
Return(status, msg) ==
    /\ pc' = "returned"
    /\ ret' = [status |-> status, msg |-> msg]
    /\ UNCHANGED <<mainpc, exitStatus, uncaught, idx, ok, results>>

Continue(next) ==
    /\ pc' = next
    /\ UNCHANGED <<mainpc, exitStatus, uncaught, idx, ok, results, ret>>

\* the step completed; doc.save() follows it
DoneAndSave(step, cs, saveOut, next) ==
    /\ Issue(step, cs \o <<EC(step, "save", 1, NoArgs, saveOut)>>)
    /\ Mark(step, "done")
    /\ IF saveOut = "ok"
       THEN checkpointed' = checkpointed \cup {step} /\ Continue(next)
       ELSE UNCHANGED checkpointed /\ Raise

\* the step's last attempt raised and nothing catches it
FailAndRaise(step, cs) ==
    /\ Issue(step, cs)
    /\ Mark(step, "failed")
    /\ UNCHANGED checkpointed
    /\ Raise

\* the attempt was rejected and the next variant of the step is tried
TryNext(step, cs, next) ==
    /\ Issue(step, cs)
    /\ UNCHANGED <<steps, checkpointed>>
    /\ Continue(next)

runVars == <<method, args, crs, dates, scans, gpuWrites, configError, listFile>>

fixedVars == <<runVars, pszFile>>

-----------------------------------------------------------------------------
(* Scan folder contents *)

\* entries of a scan folder that match *__edof: the text before __edof (uid),
\* whether the entry is a folder, and the number of *.png files in it
EdofEntries ==
    {[uid |-> u, isDir |-> d, pngs |-> n] :
        u \in {"", "u1", "u2"}, d \in BOOLEAN, n \in 0..1}

EdofListings ==
    {l \in SUBSET {e \in EdofEntries : e.isDir \/ e.pngs = 0} :
        /\ Cardinality(l) <= MaxEntries
        /\ \A e1 \in l, e2 \in l : e1.uid = e2.uid => e1 = e2}

\* the <uid>__edof subfolders of a listing
EdofFolders(l) == {e \in l : e.isDir /\ e.uid # ""}

\* files of the scan folder named *__CamPos.txt
CamPosUniverse ==
    {[parent |-> 0, name |-> <<"TS1", "__", "u1", "__", "sp", "__", "CamPos">>],
     [parent |-> 0, name |-> <<"x", "__", "CamPos">>]}

\* files of models/ the XML glob matches: <dataset>_Calibrated_Cameras_<t>.xml
XmlTails == <<"u1", "u2", "TS1", "TS2", "sp", "x">>

XmlUniverse ==
    {[parent |-> 0, name |-> <<"TS1", "__", "u1", "__", "sp", "CC", XmlTails[i], "xml">>] :
        i \in 1..(IF MaxEntries < Len(XmlTails) THEN MaxEntries ELSE Len(XmlTails))}

RefListings(U) == {l \in SUBSET U : Cardinality(l) <= MaxEntries}

RECURSIVE FirstUid(_, _)
\* the loop of get_uid_and_dataset / get_uid_dataset over the glob's entries;
\* "" stands for None
FirstUid(enum, needDir) ==
    IF enum = <<>> THEN ""
    ELSE IF (needDir => enum[1].isDir) /\ enum[1].uid # "" THEN enum[1].uid
    ELSE FirstUid(Tail(enum), needDir)

B_get_uid_and_dataset(enum) == FirstUid(enum, TRUE)

A_get_uid_dataset(enum) == FirstUid(enum, FALSE)

\* the uids some enumeration order of the listing resolves
ResolvableUids(listing, needDir) ==
    {e.uid : e \in {x \in listing : (needDir => x.isDir) /\ x.uid # ""}}

\* dataset_id = scan_dir.name.replace("__DISC3D", "")
DatasetId(scan) == SubSeq(scan.name, 1, Len(scan.name) - 2)

\* psz = models / f"{dataset_id}.psz"
PszPath(scan) == [parent |-> scan, name |-> DatasetId(scan) \o <<"psz">>]

\* cams_xml = models / f"{dataset_id}_Calibrated_Cameras_{uid}_{dataset_id.split('__')[0]}.xml"
B_CamsXmlPath(scan, uid) ==
    [parent |-> scan, name |-> DatasetId(scan) \o <<"CC", uid, DatasetId(scan)[1], "xml">>]

PngsOf(listing, uid) ==
    LET e == CHOOSE e \in listing : e.uid = uid IN e.pngs

FreshSteps == [s \in StepNames |-> "pending"]

AutoSensor == [f |-> "auto", others |-> "auto", fixed |-> FALSE, user_calib |-> FALSE]

NewSensors(n) == [i \in 1..n |-> AutoSensor]

\* what process_scan starts from
EnterUnit(f, u) ==
    /\ folder' = f
    /\ unit' = u
    /\ steps' = FreshSteps
    /\ calls' = <<>>
    /\ checkpointed' = {}
    /\ sensors' = <<>>
    /\ qc' = NoQc

-----------------------------------------------------------------------------
(* Method B: process_scan *)

B_CamposOk_AcceptsNone(campos_list) == Len(campos_list) <= 1

\* the negation of: if len(campos_list) != 1: return ("fail", ...)
B_CamposOk(campos_list) == Len(campos_list) = 1

B_Validate ==
    /\ method = "B" /\ mainpc = "loop" /\ pc = "called"
    /\ \E listing \in EdofListings, campos \in RefListings(CamPosUniverse) :
         \E enum \in Perms(listing), campos_list \in Perms(campos) :
            LET uid == B_get_uid_and_dataset(enum)
                imgs == IF uid = "" THEN 0 ELSE PngsOf(listing, uid)
                valid == uid # "" /\ imgs > 0 /\ B_CamposOk(campos_list)
            IN  /\ EnterUnit([known |-> TRUE, nEdof |-> Cardinality(EdofFolders(listing)),
                              uids |-> ResolvableUids(listing, TRUE), refs |-> campos],
                             [uid |-> uid, nImgs |-> imgs,
                              ref |-> IF campos_list # <<>> THEN campos_list[1] ELSE NoRef,
                              psz |-> IF valid THEN PszPath(scans[idx]) ELSE NoRef,
                              cams_xml |-> IF valid THEN B_CamsXmlPath(scans[idx], uid)
                                           ELSE NoRef])
                /\ IF uid = "" THEN Return("fail", "No '<uid>__edof' folder found")
                   ELSE IF imgs = 0 THEN Return("fail", "No PNGs in edof")
                   ELSE IF ~B_CamposOk(campos_list) THEN Return("fail", "Missing or multiple CamPos.txt")
                   ELSE Continue("start")
    /\ UNCHANGED <<fixedVars, searched>>

B_StartProject ==
    /\ method = "B" /\ pc = "start"
    /\ \E saveOut \in SaveOutcomes :
         /\ Issue("start", <<EC("start", "Document", 1, NoArgs, "ok"),
                             EC("start", "addChunk", 1, NoArgs, "ok"),
                             EC("start", "save", 1, [path |-> unit.psz], saveOut)>>)
         /\ pszFile' = IF saveOut = "ok" THEN "current" ELSE pszFile
         /\ IF saveOut = "ok" THEN Continue("addPhotos") ELSE Raise
    /\ UNCHANGED <<runVars, searched, folder, unit, steps, checkpointed, sensors, qc>>

B_AddPhotos ==
    /\ method = "B" /\ pc = "addPhotos"
    /\ \E out \in Outcomes, n \in 0..MaxSensors, saveOut \in SaveOutcomes :
         LET c == EC("ingest", "addPhotos", 1, [photos |-> unit.nImgs], out)
         IN  IF out = "ok"
             THEN /\ sensors' = NewSensors(n)
                  /\ DoneAndSave("ingest", <<c>>, saveOut, "calibrate")
             ELSE /\ n = 0 /\ saveOut = "ok"
                  /\ UNCHANGED sensors
                  /\ FailAndRaise("ingest", <<c>>)
    /\ UNCHANGED <<fixedVars, searched, folder, unit, qc>>

\* the precalibrated intrinsics written to chunk.sensors[0]
B_SeedCalibration(sensor) ==
    [sensor EXCEPT !.f = "seed", !.others = "zero", !.user_calib = TRUE, !.fixed = FALSE]

B_Calibrate ==
    /\ method = "B" /\ pc = "calibrate"
    /\ IF sensors = <<>>
       THEN /\ Return("fail", "No sensor after adding photos")
            /\ UNCHANGED <<steps, calls, checkpointed, sensors>>
       ELSE \E saveOut \in SaveOutcomes :
              /\ sensors' = [sensors EXCEPT ![1] = B_SeedCalibration(sensors[1])]
              /\ DoneAndSave("calibrate", <<EC("calibrate", "Calibration", 1, [f |-> "seed"], "ok")>>,
                             saveOut, "importReference")
    /\ UNCHANGED <<fixedVars, searched, folder, unit, qc>>

B_ImportReference ==
    /\ method = "B" /\ pc = "importReference"
    /\ \E out \in Outcomes, saveOut \in SaveOutcomes :
         LET c == EC("import_reference", "importReference", 1,
                     [path |-> unit.ref, format |-> "CSV", columns |-> "nxyz",
                      delimiter |-> "SP", items |-> "Cameras", crs |-> crs,
                      skip_rows |-> 1, group_delimiters |-> FALSE], out)
         IN  IF out = "ok"
             THEN DoneAndSave("import_reference", <<c>>, saveOut, "match")
             ELSE saveOut = "ok" /\ FailAndRaise("import_reference", <<c>>)
    /\ UNCHANGED <<fixedVars, searched, folder, unit, sensors, qc>>

B_MatchArgs ==
    [accuracy |-> "Highest", generic_preselection |-> TRUE,
     reference_preselection |-> TRUE, reference_preselection_mode |-> "Source",
     keypoint_limit |-> 250000, tiepoint_limit |-> 250000,
     keep_keypoints |-> FALSE, guided_matching |-> FALSE,
     filter_stationary_points |-> TRUE]

B_MatchFallbackArgs_EngineLimits ==
    [downscale |-> 0, generic_preselection |-> TRUE,
     reference_preselection |-> TRUE, reference_preselection_mode |-> "Source",
     keypoint_limit |-> 40000, tiepoint_limit |-> 4000,
     keep_keypoints |-> FALSE, guided_matching |-> FALSE,
     filter_stationary_points |-> TRUE]

B_MatchFallbackArgs ==
    [downscale |-> 0, generic_preselection |-> TRUE,
     reference_preselection |-> TRUE, reference_preselection_mode |-> "Source",
     keypoint_limit |-> 250000, tiepoint_limit |-> 250000,
     keep_keypoints |-> FALSE, guided_matching |-> FALSE,
     filter_stationary_points |-> TRUE]

B_MatchPrimary ==
    /\ method = "B" /\ pc = "match"
    /\ \E out \in Outcomes :
         LET c == EC("match_align", "matchPhotos", 1, B_MatchArgs, out)
         IN  IF out = "ok" THEN TryNext("match_align", <<c>>, "align")
             ELSE TryNext("match_align", <<c>>, "matchFallback")
    /\ folder' = NoFolder
    /\ UNCHANGED <<fixedVars, searched, unit, sensors, qc>>

B_MatchFallback ==
    /\ method = "B" /\ pc = "matchFallback"
    /\ \E out \in Outcomes :
         LET c == EC("match_align", "matchPhotos", 2, B_MatchFallbackArgs, out)
         IN  IF out = "ok" THEN TryNext("match_align", <<c>>, "align")
             ELSE FailAndRaise("match_align", <<c>>)
    /\ UNCHANGED <<fixedVars, searched, folder, unit, sensors, qc>>

B_AlignPrimary ==
    /\ method = "B" /\ pc = "align"
    /\ \E out \in Outcomes, saveOut \in SaveOutcomes :
         LET c == EC("match_align", "alignCameras", 1, [adaptive_fitting |-> FALSE], out)
         IN  CASE out = "ok" -> DoneAndSave("match_align", <<c>>, saveOut, "qcCopy")
               [] out = "TypeError" -> saveOut = "ok" /\ TryNext("match_align", <<c>>, "alignFallback")
               [] OTHER -> saveOut = "ok" /\ FailAndRaise("match_align", <<c>>)
    /\ UNCHANGED <<fixedVars, searched, folder, unit, sensors, qc>>

B_AlignFallback ==
    /\ method = "B" /\ pc = "alignFallback"
    /\ \E out \in Outcomes, saveOut \in SaveOutcomes :
         LET c == EC("match_align", "alignCameras", 2, NoArgs, out)
         IN  IF out = "ok" THEN DoneAndSave("match_align", <<c>>, saveOut, "qcCopy")
             ELSE saveOut = "ok" /\ FailAndRaise("match_align", <<c>>)
    /\ UNCHANGED <<fixedVars, searched, folder, unit, sensors, qc>>

\* qc_chunk = chunk.copy()
B_QcCopy ==
    /\ method = "B" /\ pc = "qcCopy"
    /\ \E out \in Outcomes :
         LET c == EC("qc", "copy", 1, NoArgs, out)
         IN  IF out = "ok"
             THEN /\ qc' = [exists |-> TRUE, label |-> "", enabled |-> TRUE]
                  /\ TryNext("qc", <<c>>, "qcTag")
             ELSE /\ UNCHANGED qc
                  /\ TryNext("qc", <<c>>, "qcDuplicate")
    /\ UNCHANGED <<fixedVars, searched, folder, unit, sensors>>

B_QcDuplicate_Fatal ==
    /\ method = "B" /\ pc = "qcDuplicate"
    /\ \E out \in Outcomes :
         LET c == EC("qc", "duplicate", 2, NoArgs, out)
         IN  IF out = "ok"
             THEN /\ qc' = [exists |-> TRUE, label |-> "", enabled |-> TRUE]
                  /\ TryNext("qc", <<c>>, "qcTag")
             ELSE /\ UNCHANGED qc
                  /\ FailAndRaise("qc", <<c>>)
    /\ UNCHANGED <<fixedVars, searched, folder, unit, sensors>>

\* qc_chunk = chunk.duplicate(); when it raises too, the warning is printed
B_QcDuplicate ==
    /\ method = "B" /\ pc = "qcDuplicate"
    /\ \E out \in Outcomes :
         LET c == EC("qc", "duplicate", 2, NoArgs, out)
             warn == EC("qc", "print", 1, [text |-> "[WARN] QC chunk could not be duplicated"], "ok")
         IN  IF out = "ok"
             THEN /\ qc' = [exists |-> TRUE, label |-> "", enabled |-> TRUE]
                  /\ TryNext("qc", <<c>>, "qcTag")
             ELSE /\ UNCHANGED <<qc, checkpointed>>
                  /\ Issue("qc", <<c, warn>>)
                  /\ Mark("qc", "failed")
                  /\ Continue("optimize")
    /\ UNCHANGED <<fixedVars, searched, folder, unit, sensors>>

\* label and disable the snapshot (each assignment guarded), then doc.save()
B_QcTag ==
    /\ method = "B" /\ pc = "qcTag"
    /\ \E labelOk \in BOOLEAN, enabledOk \in BOOLEAN, saveOut \in SaveOutcomes :
         /\ qc' = [qc EXCEPT !.label = IF labelOk THEN "DISC3D__QC_ALIGNED" ELSE @,
                             !.enabled = IF enabledOk THEN FALSE ELSE @]
         /\ DoneAndSave("qc", <<>>, saveOut, "optimize")
    /\ UNCHANGED <<fixedVars, searched, folder, unit, sensors>>

B_OptimizeArgs ==
    [fit_f |-> TRUE, fit_cx |-> FALSE, fit_cy |-> FALSE, fit_b1 |-> FALSE, fit_b2 |-> FALSE,
     fit_k1 |-> FALSE, fit_k2 |-> FALSE, fit_k3 |-> FALSE, fit_k4 |-> FALSE,
     fit_p1 |-> FALSE, fit_p2 |-> FALSE, fit_p3 |-> FALSE, fit_p4 |-> FALSE,
     adaptive_fitting |-> FALSE]

B_OptimizeFallbackArgs_EngineDefaults ==
    [fit_f |-> TRUE, fit_cx |-> TRUE, fit_cy |-> TRUE, fit_b1 |-> FALSE, fit_b2 |-> FALSE,
     fit_k1 |-> TRUE, fit_k2 |-> TRUE, fit_k3 |-> TRUE, fit_k4 |-> FALSE,
     fit_p1 |-> TRUE, fit_p2 |-> TRUE]

B_OptimizeFallbackArgs ==
    [fit_f |-> TRUE, fit_cx |-> FALSE, fit_cy |-> FALSE, fit_b1 |-> FALSE, fit_b2 |-> FALSE,
     fit_k1 |-> FALSE, fit_k2 |-> FALSE, fit_k3 |-> FALSE, fit_k4 |-> FALSE,
     fit_p1 |-> FALSE, fit_p2 |-> FALSE]

B_OptimizePrimary ==
    /\ method = "B" /\ pc = "optimize"
    /\ \E out \in Outcomes, saveOut \in SaveOutcomes :
         LET c == EC("optimize", "optimizeCameras", 1, B_OptimizeArgs, out)
         IN  CASE out = "ok" -> DoneAndSave("optimize", <<c>>, saveOut, "depth")
               [] out = "TypeError" -> saveOut = "ok" /\ TryNext("optimize", <<c>>, "optimizeFallback")
               [] OTHER -> saveOut = "ok" /\ FailAndRaise("optimize", <<c>>)
    /\ UNCHANGED <<fixedVars, searched, folder, unit, sensors, qc>>

B_OptimizeFallback ==
    /\ method = "B" /\ pc = "optimizeFallback"
    /\ \E out \in Outcomes, saveOut \in SaveOutcomes :
         LET c == EC("optimize", "optimizeCameras", 2, B_OptimizeFallbackArgs, out)
         IN  IF out = "ok" THEN DoneAndSave("optimize", <<c>>, saveOut, "depth")
             ELSE saveOut = "ok" /\ FailAndRaise("optimize", <<c>>)
    /\ UNCHANGED <<fixedVars, searched, folder, unit, sensors, qc>>

B_DepthPrimary_SkipsLegacy ==
    /\ method = "B" /\ pc = "depth"
    /\ \E out \in Outcomes, saveOut \in SaveOutcomes :
         LET c == EC("build_depth", "buildDepthMaps", 1,
                     [downscale |-> 1, filter_mode |-> "Mild"], out)
         IN  CASE out = "ok" -> DoneAndSave("build_depth", <<c>>, saveOut, "mesh")
               [] out = "TypeError" -> saveOut = "ok" /\ TryNext("build_depth", <<c>>, "depth3")
               [] OTHER -> saveOut = "ok" /\ FailAndRaise("build_depth", <<c>>)
    /\ UNCHANGED <<fixedVars, searched, folder, unit, sensors, qc>>

\* buildDepthMaps(downscale=1, filter_mode=MildFiltering)
B_DepthPrimary ==
    /\ method = "B" /\ pc = "depth"
    /\ \E out \in Outcomes, saveOut \in SaveOutcomes :
         LET c == EC("build_depth", "buildDepthMaps", 1,
                     [downscale |-> 1, filter_mode |-> "Mild"], out)
         IN  CASE out = "ok" -> DoneAndSave("build_depth", <<c>>, saveOut, "mesh")
               [] out = "TypeError" -> saveOut = "ok" /\ TryNext("build_depth", <<c>>, "depth2")
               [] OTHER -> saveOut = "ok" /\ FailAndRaise("build_depth", <<c>>)
    /\ UNCHANGED <<fixedVars, searched, folder, unit, sensors, qc>>

\* buildDepthMaps(quality=UltraQuality, filter=MildFiltering)
B_DepthLegacy ==
    /\ method = "B" /\ pc = "depth2"
    /\ \E out \in Outcomes, saveOut \in SaveOutcomes :
         LET c == EC("build_depth", "buildDepthMaps", 2,
                     [quality |-> "Ultra", filter |-> "Mild"], out)
         IN  IF out = "ok" THEN DoneAndSave("build_depth", <<c>>, saveOut, "mesh")
             ELSE saveOut = "ok" /\ TryNext("build_depth", <<c>>, "depth3")
    /\ UNCHANGED <<fixedVars, searched, folder, unit, sensors, qc>>

\* buildDepthMaps()
B_DepthDefault ==
    /\ method = "B" /\ pc = "depth3"
    /\ \E out \in Outcomes, saveOut \in SaveOutcomes :
         LET c == EC("build_depth", "buildDepthMaps", 3, NoArgs, out)
         IN  IF out = "ok" THEN DoneAndSave("build_depth", <<c>>, saveOut, "mesh")
             ELSE saveOut = "ok" /\ FailAndRaise("build_depth", <<c>>)
    /\ UNCHANGED <<fixedVars, searched, folder, unit, sensors, qc>>

ModelArgs ==
    [source_data |-> "DepthMaps", surface_type |-> "Arbitrary",
     interpolation |-> "Enabled", face_count |-> "High", vertex_colors |-> TRUE]

ModelLegacyArgs ==
    [source |-> "DepthMaps", surface |-> "Arbitrary",
     interpolation |-> "Enabled", face_count |-> "High", vertex_colors |-> TRUE]

B_ModelPrimary ==
    /\ method = "B" /\ pc = "mesh"
    /\ \E out \in Outcomes, saveOut \in SaveOutcomes :
         LET c == EC("build_mesh", "buildModel", 1, ModelArgs, out)
         IN  CASE out = "ok" -> DoneAndSave("build_mesh", <<c>>, saveOut, "export")
               [] out = "TypeError" -> saveOut = "ok" /\ TryNext("build_mesh", <<c>>, "mesh2")
               [] OTHER -> saveOut = "ok" /\ FailAndRaise("build_mesh", <<c>>)
    /\ UNCHANGED <<fixedVars, searched, folder, unit, sensors, qc>>

B_ModelLegacy ==
    /\ method = "B" /\ pc = "mesh2"
    /\ \E out \in Outcomes, saveOut \in SaveOutcomes :
         LET c == EC("build_mesh", "buildModel", 2, ModelLegacyArgs, out)
         IN  IF out = "ok" THEN DoneAndSave("build_mesh", <<c>>, saveOut, "export")
             ELSE saveOut = "ok" /\ TryNext("build_mesh", <<c>>, "mesh3")
    /\ UNCHANGED <<fixedVars, searched, folder, unit, sensors, qc>>

B_ModelDefault ==
    /\ method = "B" /\ pc = "mesh3"
    /\ \E out \in Outcomes, saveOut \in SaveOutcomes :
         LET c == EC("build_mesh", "buildModel", 3, NoArgs, out)
         IN  IF out = "ok" THEN DoneAndSave("build_mesh", <<c>>, saveOut, "export")
             ELSE saveOut = "ok" /\ FailAndRaise("build_mesh", <<c>>)
    /\ UNCHANGED <<fixedVars, searched, folder, unit, sensors, qc>>

\* the export succeeded: the final doc.save(), then return ("ok", ...)
B_Finish(cs, saveOut) ==
    /\ Issue("export", cs \o <<EC("export", "save", 1, NoArgs, saveOut)>>)
    /\ Mark("export", "done")
    /\ IF saveOut = "ok"
       THEN checkpointed' = checkpointed \cup {"export"} /\ Return("ok", "Saved psz cams_xml")
       ELSE UNCHANGED checkpointed /\ Raise

B_ExportPrimary ==
    /\ method = "B" /\ pc = "export"
    /\ \E out \in Outcomes, saveOut \in SaveOutcomes :
         LET c == EC("export", "exportCameras", 1,
                     [path |-> unit.cams_xml, format |-> "XML", crs |-> crs,
                      save_points |-> TRUE, save_markers |-> FALSE, use_labels |-> FALSE], out)
         IN  CASE out = "ok" -> B_Finish(<<c>>, saveOut)
               [] out = "TypeError" -> saveOut = "ok" /\ TryNext("export", <<c>>, "exportFallback")
               [] OTHER -> saveOut = "ok" /\ FailAndRaise("export", <<c>>)
    /\ UNCHANGED <<fixedVars, searched, folder, unit, sensors, qc>>

\* B_ExportFallback treating the export as optional: a failing legacy call is
\* passed over and the unit still ends with the final save and 'ok'
B_ExportFallback_Optional ==
    /\ method = "B" /\ pc = "exportFallback"
    /\ \E out \in Outcomes, saveOut \in SaveOutcomes :
         LET c == EC("export", "exportCameras", 2,
                     [path |-> unit.cams_xml, format |-> "XML", projection |-> crs,
                      export_points |-> TRUE, export_markers |-> FALSE, use_labels |-> FALSE], out)
         IN  IF out = "ok" THEN B_Finish(<<c>>, saveOut)
             ELSE /\ Issue("export", <<c, EC("export", "save", 1, NoArgs, saveOut)>>)
                  /\ Mark("export", "failed")
                  /\ UNCHANGED checkpointed
                  /\ IF saveOut = "ok" THEN Return("ok", "Saved psz cams_xml") ELSE Raise
    /\ UNCHANGED <<fixedVars, searched, folder, unit, sensors, qc>>

B_ExportFallback ==
    /\ method = "B" /\ pc = "exportFallback"
    /\ \E out \in Outcomes, saveOut \in SaveOutcomes :
         LET c == EC("export", "exportCameras", 2,
                     [path |-> unit.cams_xml, format |-> "XML", projection |-> crs,
                      export_points |-> TRUE, export_markers |-> FALSE, use_labels |-> FALSE], out)
         IN  IF out = "ok" THEN B_Finish(<<c>>, saveOut)
             ELSE saveOut = "ok" /\ FailAndRaise("export", <<c>>)
    /\ UNCHANGED <<fixedVars, searched, folder, unit, sensors, qc>>

-----------------------------------------------------------------------------
(* Method A: process_scan *)

A_SelectXml_Unsorted(enum) == IF enum = <<>> THEN NoRef ELSE enum[1]

\* xml = first element of sorted(models.glob(xml_glob)), None when empty
A_SelectXml(enum) == IF sorted(enum) = <<>> THEN NoRef ELSE sorted(enum)[1]

A_Validate ==
    /\ method = "A" /\ mainpc = "loop" /\ pc = "called"
    /\ \E listing \in EdofListings, xmls \in RefListings(XmlUniverse) :
         \E enum \in Perms(listing), xmlEnum \in Perms(xmls) :
            LET uid == A_get_uid_dataset(enum)
                imgs == IF uid = "" THEN 0 ELSE PngsOf(listing, uid)
                xml == A_SelectXml(xmlEnum)
                valid == uid # "" /\ imgs > 0 /\ xml # NoRef
            IN  /\ EnterUnit([known |-> TRUE, nEdof |-> Cardinality(EdofFolders(listing)),
                              uids |-> ResolvableUids(listing, FALSE), refs |-> xmls],
                             [uid |-> uid, nImgs |-> imgs, ref |-> xml,
                              psz |-> IF valid THEN PszPath(scans[idx]) ELSE NoRef,
                              cams_xml |-> NoRef])
                /\ IF uid = "" THEN Return("fail", "No '<uid>__edof' folder found")
                   ELSE IF imgs = 0 THEN Return("fail", "No PNGs in edof")
                   ELSE IF xml = NoRef THEN Return("fail", "No calibrated cameras XML found")
                   ELSE Continue("start")
    /\ UNCHANGED <<fixedVars, searched>>

\* enable_gpu_index(idx): the number of gpu_mask writes after the call
enable_gpu_index(gpu, raises) ==
    IF gpu = "None" THEN gpuWrites
    ELSE IF raises THEN gpuWrites
    ELSE gpuWrites + 1

A_StartProject ==
    /\ method = "A" /\ pc = "start"
    /\ \E saveOut \in SaveOutcomes, gpuRaises \in BOOLEAN :
         /\ Issue("start", <<EC("start", "Document", 1, NoArgs, "ok"),
                             EC("start", "addChunk", 1, NoArgs, "ok"),
                             EC("start", "save", 1, [path |-> unit.psz], saveOut)>>)
         /\ pszFile' = IF saveOut = "ok" THEN "current" ELSE pszFile
         /\ IF saveOut = "ok"
            THEN /\ gpuWrites' = enable_gpu_index(args.gpu, gpuRaises)
                 /\ Continue("addPhotos")
            ELSE /\ ~gpuRaises
                 /\ UNCHANGED gpuWrites
                 /\ Raise
    /\ UNCHANGED <<method, args, crs, dates, scans, folder, unit, steps, checkpointed, sensors, qc,
                   configError, listFile, searched>>

A_AddPhotos ==
    /\ method = "A" /\ pc = "addPhotos"
    /\ \E out \in Outcomes, n \in 0..MaxSensors, saveOut \in SaveOutcomes :
         LET c == EC("ingest", "addPhotos", 1, [photos |-> unit.nImgs], out)
         IN  IF out = "ok"
             THEN /\ sensors' = NewSensors(n)
                  /\ DoneAndSave("ingest", <<c>>, saveOut, "importCameras")
             ELSE /\ n = 0 /\ saveOut = "ok"
                  /\ UNCHANGED sensors
                  /\ FailAndRaise("ingest", <<c>>)
    /\ UNCHANGED <<fixedVars, searched, folder, unit, qc>>

\* the engine replaces every sensor's calibration by the one of the XML
ImportedSensors == [i \in 1..Len(sensors) |-> [sensors[i] EXCEPT !.f = "xml", !.others = "xml"]]

\* importCameras succeeded (no doc.save() follows)
A_Imported(cs) ==
    /\ Issue("import_reference", cs)
    /\ Mark("import_reference", "done")
    /\ sensors' = ImportedSensors
    /\ UNCHANGED checkpointed
    /\ Continue("lock")

A_ImportCameras ==
    /\ method = "A" /\ pc = "importCameras"
    /\ \E out \in Outcomes :
         LET c == EC("import_reference", "importCameras", 1,
                     [path |-> unit.ref, format |-> "XML", crs |-> crs], out)
         IN  CASE out = "ok" -> A_Imported(<<c>>)
               [] out = "TypeError" ->
                    UNCHANGED sensors /\ TryNext("import_reference", <<c>>, "importCamerasFallback")
               [] OTHER -> UNCHANGED sensors /\ FailAndRaise("import_reference", <<c>>)
    /\ UNCHANGED <<fixedVars, searched, folder, unit, qc>>

A_ImportCamerasFallback ==
    /\ method = "A" /\ pc = "importCamerasFallback"
    /\ \E out \in Outcomes :
         LET c == EC("import_reference", "importCameras", 2,
                     [path |-> unit.ref, format |-> "XML"], out)
         IN  IF out = "ok" THEN A_Imported(<<c>>)
             ELSE /\ Issue("import_reference", <<c>>)
                  /\ Mark("import_reference", "failed")
                  /\ UNCHANGED <<sensors, checkpointed>>
                  /\ Return("fail", "importCameras failed")
    /\ UNCHANGED <<fixedVars, searched, folder, unit, qc>>

\* for s in chunk.sensors: try: s.fixed_calibration = True; except: pass
\* raises[i] tells whether the assignment on sensor i raises
A_LockSensors(raises) ==
    [i \in 1..Len(sensors) |-> IF raises[i] THEN sensors[i] ELSE [sensors[i] EXCEPT !.fixed = TRUE]]

\* chunk.updateTransform() (guarded), then the lock loop
A_Lock ==
    /\ method = "A" /\ pc = "lock"
    /\ \E updOut \in {"ok", "Error"}, raises \in [1..Len(sensors) -> BOOLEAN] :
         /\ sensors' = A_LockSensors(raises)
         /\ Issue("calibrate", <<EC("calibrate", "updateTransform", 1, NoArgs, updOut)>>)
         /\ Mark("calibrate", IF \E i \in 1..Len(sensors) : raises[i] THEN "failed" ELSE "done")
         /\ UNCHANGED checkpointed
         /\ Continue("match")
    /\ folder' = NoFolder
    /\ UNCHANGED <<fixedVars, searched, unit, qc>>

A_MatchArgs ==
    [accuracy |-> "Highest", generic_preselection |-> TRUE,
     reference_preselection |-> TRUE, reference_preselection_mode |-> "Source",
     keypoint_limit |-> args.key_limit, tiepoint_limit |-> args.tie_limit,
     keep_keypoints |-> args.keep_keypoints, guided_matching |-> FALSE,
     filter_stationary_points |-> TRUE]

A_MatchFallbackArgs ==
    [downscale |-> 0, generic_preselection |-> TRUE,
     reference_preselection |-> TRUE, reference_preselection_mode |-> "Source",
     keypoint_limit |-> args.key_limit, tiepoint_limit |-> args.tie_limit,
     keep_keypoints |-> args.keep_keypoints, guided_matching |-> FALSE,
     filter_stationary_points |-> TRUE]

A_MatchPrimary ==
    /\ method = "A" /\ pc = "match"
    /\ \E out \in Outcomes :
         LET c == EC("match_align", "matchPhotos", 1, A_MatchArgs, out)
         IN  IF out = "ok" THEN TryNext("match_align", <<c>>, "align")
             ELSE TryNext("match_align", <<c>>, "matchFallback")
    /\ UNCHANGED <<fixedVars, searched, folder, unit, sensors, qc>>

\* A_MatchFallback calling the fallback signature once more when it raised
A_MatchFallback_RetriesOnce ==
    /\ method = "A" /\ pc = "matchFallback"
    /\ \E out \in Outcomes :
         LET c == EC("match_align", "matchPhotos", 2, A_MatchFallbackArgs, out)
         IN  IF out = "ok" THEN TryNext("match_align", <<c>>, "align")
             ELSE IF Len(calls) < 3 THEN TryNext("match_align", <<c>>, "matchFallback")
             ELSE FailAndRaise("match_align", <<c>>)
    /\ UNCHANGED <<fixedVars, searched, folder, unit, sensors, qc>>

A_MatchFallback ==
    /\ method = "A" /\ pc = "matchFallback"
    /\ \E out \in Outcomes :
         LET c == EC("match_align", "matchPhotos", 2, A_MatchFallbackArgs, out)
         IN  IF out = "ok" THEN TryNext("match_align", <<c>>, "align")
             ELSE FailAndRaise("match_align", <<c>>)
    /\ UNCHANGED <<fixedVars, searched, folder, unit, sensors, qc>>

\* A_AlignPrimary writing fixed_calibration on every sensor once more before
\* the alignCameras call
A_AlignPrimary_Relocks ==
    /\ method = "A" /\ pc = "align"
    /\ \E out \in Outcomes, saveOut \in SaveOutcomes :
         LET c == EC("match_align", "alignCameras", 1, [adaptive_fitting |-> FALSE], out)
         IN  CASE out = "ok" -> DoneAndSave("match_align", <<c>>, saveOut, "optimize")
               [] out = "TypeError" -> saveOut = "ok" /\ TryNext("match_align", <<c>>, "alignFallback")
               [] OTHER -> saveOut = "ok" /\ FailAndRaise("match_align", <<c>>)
    /\ sensors' = A_LockSensors([i \in 1..Len(sensors) |-> FALSE])
    /\ UNCHANGED <<fixedVars, searched, folder, unit, qc>>

A_AlignPrimary ==
    /\ method = "A" /\ pc = "align"
    /\ \E out \in Outcomes, saveOut \in SaveOutcomes :
         LET c == EC("match_align", "alignCameras", 1, [adaptive_fitting |-> FALSE], out)
         IN  CASE out = "ok" -> DoneAndSave("match_align", <<c>>, saveOut, "optimize")
               [] out = "TypeError" -> saveOut = "ok" /\ TryNext("match_align", <<c>>, "alignFallback")
               [] OTHER -> saveOut = "ok" /\ FailAndRaise("match_align", <<c>>)
    /\ UNCHANGED <<fixedVars, searched, folder, unit, sensors, qc>>

A_AlignFallback ==
    /\ method = "A" /\ pc = "alignFallback"
    /\ \E out \in Outcomes, saveOut \in SaveOutcomes :
         LET c == EC("match_align", "alignCameras", 2, NoArgs, out)
         IN  IF out = "ok" THEN DoneAndSave("match_align", <<c>>, saveOut, "optimize")
             ELSE saveOut = "ok" /\ FailAndRaise("match_align", <<c>>)
    /\ UNCHANGED <<fixedVars, searched, folder, unit, sensors, qc>>

A_OptimizeArgs ==
    [fit_f |-> FALSE, fit_cx |-> FALSE, fit_cy |-> FALSE, fit_b1 |-> FALSE, fit_b2 |-> FALSE,
     fit_k1 |-> FALSE, fit_k2 |-> FALSE, fit_k3 |-> FALSE, fit_k4 |-> FALSE,
     fit_p1 |-> FALSE, fit_p2 |-> FALSE,
     fit_corrections |-> FALSE, adaptive_fitting |-> FALSE, tiepoint_covariance |-> FALSE]

\* a TypeError is swallowed (except TypeError: pass) and doc.save() follows
A_Optimize ==
    /\ method = "A" /\ pc = "optimize"
    /\ \E out \in Outcomes, saveOut \in SaveOutcomes :
         LET c == EC("optimize", "optimizeCameras", 1, A_OptimizeArgs, out)
         IN  CASE out = "ok" -> DoneAndSave("optimize", <<c>>, saveOut, "depth")
               [] out = "TypeError" ->
                    /\ Issue("optimize", <<c, EC("optimize", "save", 1, NoArgs, saveOut)>>)
                    /\ Mark("optimize", "failed")
                    /\ UNCHANGED checkpointed
                    /\ IF saveOut = "ok" THEN Continue("depth") ELSE Raise
               [] OTHER -> saveOut = "ok" /\ FailAndRaise("optimize", <<c>>)
    /\ UNCHANGED <<fixedVars, searched, folder, unit, sensors, qc>>

\* buildDepthMaps(quality=UltraQuality, filter=MildFiltering)
A_DepthPrimary ==
    /\ method = "A" /\ pc = "depth"
    /\ \E out \in Outcomes, saveOut \in SaveOutcomes :
         LET c == EC("build_depth", "buildDepthMaps", 1,
                     [quality |-> "Ultra", filter |-> "Mild"], out)
         IN  IF out = "ok" THEN DoneAndSave("build_depth", <<c>>, saveOut, "mesh")
             ELSE saveOut = "ok" /\ TryNext("build_depth", <<c>>, "depth2")
    /\ UNCHANGED <<fixedVars, searched, folder, unit, sensors, qc>>

\* buildDepthMaps(downscale=1, filter_mode=MildFiltering)
A_DepthSecond ==
    /\ method = "A" /\ pc = "depth2"
    /\ \E out \in Outcomes, saveOut \in SaveOutcomes :
         LET c == EC("build_depth", "buildDepthMaps", 2,
                     [downscale |-> 1, filter_mode |-> "Mild"], out)
         IN  IF out = "ok" THEN DoneAndSave("build_depth", <<c>>, saveOut, "mesh")
             ELSE saveOut = "ok" /\ TryNext("build_depth", <<c>>, "depth3")
    /\ UNCHANGED <<fixedVars, searched, folder, unit, sensors, qc>>

A_DepthDefault ==
    /\ method = "A" /\ pc = "depth3"
    /\ \E out \in Outcomes, saveOut \in SaveOutcomes :
         LET c == EC("build_depth", "buildDepthMaps", 3, NoArgs, out)
         IN  IF out = "ok" THEN DoneAndSave("build_depth", <<c>>, saveOut, "mesh")
             ELSE saveOut = "ok" /\ FailAndRaise("build_depth", <<c>>)
    /\ UNCHANGED <<fixedVars, searched, folder, unit, sensors, qc>>

A_ModelPrimary ==
    /\ method = "A" /\ pc = "mesh"
    /\ \E out \in Outcomes, saveOut \in SaveOutcomes :
         LET c == EC("build_mesh", "buildModel", 1, ModelArgs, out)
         IN  CASE out = "ok" -> DoneAndSave("build_mesh", <<c>>, saveOut, "trim")
               [] out = "TypeError" -> saveOut = "ok" /\ TryNext("build_mesh", <<c>>, "mesh2")
               [] OTHER -> saveOut = "ok" /\ FailAndRaise("build_mesh", <<c>>)
    /\ UNCHANGED <<fixedVars, searched, folder, unit, sensors, qc>>

A_ModelLegacy ==
    /\ method = "A" /\ pc = "mesh2"
    /\ \E out \in Outcomes, saveOut \in SaveOutcomes :
         LET c == EC("build_mesh", "buildModel", 2, ModelLegacyArgs, out)
         IN  IF out = "ok" THEN DoneAndSave("build_mesh", <<c>>, saveOut, "trim")
             ELSE saveOut = "ok" /\ TryNext("build_mesh", <<c>>, "mesh3")
    /\ UNCHANGED <<fixedVars, searched, folder, unit, sensors, qc>>

A_ModelDefault ==
    /\ method = "A" /\ pc = "mesh3"
    /\ \E out \in Outcomes, saveOut \in SaveOutcomes :
         LET c == EC("build_mesh", "buildModel", 3, NoArgs, out)
         IN  IF out = "ok" THEN DoneAndSave("build_mesh", <<c>>, saveOut, "trim")
             ELSE saveOut = "ok" /\ FailAndRaise("build_mesh", <<c>>)
    /\ UNCHANGED <<fixedVars, searched, folder, unit, sensors, qc>>

\* answers of chunk.clearDepthMaps(): done, no such method, another exception
ClearOutcomes == {"ok", "AttributeError", "Error"}

\* thin_project: the engine calls it issues, in order; "raise" as last element
\* when an exception leaves it
thin_project(clear_depth, clear_matches, clearOut, assignOk, hasRemove, removeOut) ==
    LET depthCalls ==
            IF ~clear_depth THEN <<>>
            ELSE IF clearOut = "AttributeError"
            THEN <<EC("trim", "clearDepthMaps", 1, NoArgs, clearOut),
                   EC("trim", "depth_maps=None", 2, NoArgs, IF assignOk THEN "ok" ELSE "Error")>>
            ELSE <<EC("trim", "clearDepthMaps", 1, NoArgs, clearOut)>>
        matchCalls ==
            IF clear_matches /\ hasRemove
            THEN <<EC("trim", "removeMatches", 1, NoArgs, removeOut)>>
            ELSE <<>>
    IN  IF clear_depth /\ clearOut = "Error" THEN depthCalls
        ELSE depthCalls \o matchCalls

\* thin_project(...), the final doc.save(), return ("ok", ...)
A_Trim ==
    /\ method = "A" /\ pc = "trim"
    /\ \E clearOut \in ClearOutcomes, assignOk \in BOOLEAN, hasRemove \in BOOLEAN,
          removeOut \in {"ok", "Error"}, saveOut \in SaveOutcomes :
         LET cs == thin_project(~args.keep_depth, ~args.keep_matches,
                                clearOut, assignOk, hasRemove, removeOut)
             escaped == ~args.keep_depth /\ clearOut = "Error"
         IN  IF escaped
             THEN saveOut = "ok" /\ FailAndRaise("trim", cs)
             ELSE /\ Issue("trim", cs \o <<EC("trim", "save", 1, NoArgs, saveOut)>>)
                  /\ Mark("trim", "done")
                  /\ IF saveOut = "ok"
                     THEN checkpointed' = checkpointed \cup {"trim"}
                          /\ Return("ok", "Saved psz using XML")
                     ELSE UNCHANGED checkpointed /\ Raise
    /\ UNCHANGED <<fixedVars, searched, folder, unit, sensors, qc>>

A_Next ==
    \/ A_MainConfig \/ A_Validate \/ A_StartProject \/ A_AddPhotos
    \/ A_ImportCameras \/ A_ImportCamerasFallback \/ A_Lock
    \/ A_MatchPrimary \/ A_MatchFallback \/ A_AlignPrimary \/ A_AlignFallback
    \/ A_Optimize \/ A_DepthPrimary \/ A_DepthSecond \/ A_DepthDefault
    \/ A_ModelPrimary \/ A_ModelLegacy \/ A_ModelDefault \/ A_Trim

-----------------------------------------------------------------------------
(* main(): after the loop *)

\* for s in scans: the next folder of the list is handed to process_scan; an
\* earlier run over the same folder may have left its finished project there
MainLoopNext ==
    /\ mainpc = "loop" /\ pc = "idle" /\ idx <= Len(scans)
    /\ pc' = "called"
    /\ searched' = NoSearch
    /\ pszFile' \in {"absent", "finalized"}
    /\ UNCHANGED <<runVars, mainpc, exitStatus, uncaught, idx, ok, results, ret,
                   folder, unit, steps, calls, checkpointed, sensors, qc>>

\* the loop body after process_scan returned: count and print the result; the
\* locals of the finished call are gone
MainLoopBody ==
    /\ mainpc = "loop" /\ pc = "returned"
    /\ results' = Append(results, ret.status)
    /\ ok' = IF ret.status = "ok" THEN ok + 1 ELSE ok
    /\ idx' = idx + 1
    /\ pc' = "idle"
    /\ ret' = NoRet
    /\ folder' = NoFolder
    /\ unit' = NoUnit
    /\ steps' = [s \in {} |-> "pending"]
    /\ calls' = <<>>
    /\ checkpointed' = {}
    /\ sensors' = <<>>
    /\ qc' = NoQc
    /\ pszFile' = "unknown"
    /\ UNCHANGED <<runVars, searched, mainpc, exitStatus, uncaught>>

\* if ok == 0: sys.exit(1); otherwise main() returns and the status is 0
MainFinish ==
    /\ mainpc = "loop" /\ pc = "idle" /\ idx > Len(scans)
    /\ Exit(IF ok = 0 THEN 1 ELSE 0)
    /\ UNCHANGED <<fixedVars, searched, idx, ok, results, ret, unitVars>>

B_Next ==
    \/ B_MainConfig \/ B_Validate \/ B_StartProject \/ B_AddPhotos \/ B_Calibrate
    \/ B_ImportReference \/ B_MatchPrimary \/ B_MatchFallback \/ B_AlignPrimary
    \/ B_AlignFallback \/ B_QcCopy \/ B_QcDuplicate \/ B_QcTag
    \/ B_OptimizePrimary \/ B_OptimizeFallback
    \/ B_DepthPrimary \/ B_DepthLegacy \/ B_DepthDefault
    \/ B_ModelPrimary \/ B_ModelLegacy \/ B_ModelDefault
    \/ B_ExportPrimary \/ B_ExportFallback

Next ==
    \/ MainLoadCrs \/ MainFindScans \/ MainLoopNext \/ MainLoopBody \/ MainFinish
    \/ B_Next
    \/ A_Next

Spec == Init /\ [][Next]_vars

\* every engine call returns or raises and the interpreter runs the next
\* statement: the run never stops short of its exit
FairSpec == Spec /\ WF_vars(Next)

-----------------------------------------------------------------------------
(* Properties of process_scan and main() *)

\* no call has reached the engine for the unit at hand
NoEngineCall == calls = <<>> /\ \A s \in DOMAIN steps : steps[s] = "pending"

\* process_scan returned "fail" from its validation, before Metashape.Document()
Rejected == pc = "returned" /\ ret.status = "fail" /\ NoEngineCall

\* step s has issued an engine call
StepStarted(s) == steps[s] # "pending" \/ (calls # <<>> /\ calls[1].step = s)

Earlier(t, s) == StepIndex(t) < StepIndex(s)

\* the first of a non-empty set of paths in sort order
MinPath(S) == CHOOSE x \in S : \A y \in S : x = y \/ PathLess(x, y)

SomeOk == \E i \in DOMAIN results : results[i] = "ok"

\* C1: when a step of a unit has failed with its fallbacks exhausted,
\* process_scan has returned ("fail", reason) and no exception has left it,
\* and a run that found scans ends with one result per scan of the sorted list.
C1_FailureIsolated ==
    /\ \A s \in DOMAIN steps :
          (steps[s] = "failed" /\ s # "qc") =>
              (pc = "returned" /\ ret.status = "fail" /\ ~uncaught)
    /\ (mainpc = "exited" /\ scans # <<>>) => Len(results) = Len(scans)

\* C2: a step has issued an engine call only if every earlier step of the unit,
\* the QC snapshot excepted, completed successfully.
C2_StepsInOrder ==
    \A s \in DOMAIN steps : StepStarted(s) =>
        \A t \in DOMAIN steps : (Earlier(t, s) /\ t # "qc") => steps[t] = "done"

\* C3: when a step has issued an engine call, every earlier step that completed
\* successfully was followed by a doc.save() before the next step began.
C3_SavedAfterEveryStep ==
    \A s \in DOMAIN steps : StepStarted(s) =>
        \A t \in DOMAIN steps : (Earlier(t, s) /\ steps[t] = "done") => t \in checkpointed

IntrinsicFitFlags ==
    {"fit_f", "fit_cx", "fit_cy", "fit_b1", "fit_b2", "fit_k1", "fit_k2", "fit_k3",
     "fit_k4", "fit_p1", "fit_p2", "fit_p3", "fit_p4", "fit_corrections"}

\* the flags the engine fits unless the call says otherwise
ExplicitFitFlags ==
    {"fit_f", "fit_cx", "fit_cy", "fit_b1", "fit_b2", "fit_k1", "fit_k2", "fit_k3",
     "fit_k4", "fit_p1", "fit_p2"}

\* C4: every optimizeCameras call names the intrinsic fit flags; in Method A
\* all of them are false, in Method B fit_f is true and all others are false.
C4_FitFlags ==
    \A i \in DOMAIN calls : calls[i].op = "optimizeCameras" =>
        LET a == calls[i].args
        IN  /\ ExplicitFitFlags \subseteq DOMAIN a
            /\ \A k \in IntrinsicFitFlags \cap DOMAIN a :
                  a[k] = (method = "B" /\ k = "fit_f")

\* the fallback optimizeCameras call of Method B was issued and succeeded
C4_Witness ==
    /\ method = "B"
    /\ \E i \in DOMAIN calls :
          calls[i].op = "optimizeCameras" /\ calls[i].variant = 2 /\ calls[i].out = "ok"

\* C5: a unit with images but no reference artifact is returned as "fail" with
\* the reason naming the missing artifact, and no engine call is made for it.
C5_MissingReferenceRejected ==
    (folder.known /\ unit.nImgs > 0 /\ folder.refs = {}) =>
        /\ Rejected
        /\ ret.msg = IF method = "B" THEN "Missing or multiple CamPos.txt"
                     ELSE "No calibrated cameras XML found"

\* process_scan has returned for a unit with images and no reference artifact
C5_Witness ==
    /\ folder.known /\ unit.nImgs > 0 /\ folder.refs = {}
    /\ pc = "returned"

\* C6: a unit whose reference artifact count is zero or greater than one is
\* rejected with "fail" and no engine call is made for it.
C6_ExactlyOneReference ==
    (folder.known /\ Cardinality(folder.refs) # 1) => Rejected

\* C7: in Method A, with two or more files matching the XML glob, the selected
\* file and the path of every importCameras call is the first match in path
\* sort order, whatever the order of the glob's enumeration.
C7_FirstXmlInSortOrder ==
    (method = "A" /\ folder.known /\ Cardinality(folder.refs) >= 2) =>
        /\ unit.ref = MinPath(folder.refs)
        /\ \A i \in DOMAIN calls :
              calls[i].op = "importCameras" => calls[i].args.path = MinPath(folder.refs)

\* importCameras was called for a unit with two or more matching XML files
C7_Witness ==
    /\ method = "A" /\ folder.known /\ Cardinality(folder.refs) >= 2
    /\ \E i \in DOMAIN calls : calls[i].op = "importCameras"

\* C8: a unit whose scan folder holds zero or several <uid>__edof subfolders is
\* rejected before any engine call, a uid is resolved only when there is
\* exactly one, and a unit without PNG images in it is rejected as well.
C8_UidResolution ==
    folder.known =>
        /\ folder.nEdof # 1 => Rejected
        /\ unit.uid # "" => folder.nEdof = 1
        /\ (unit.uid # "" /\ unit.nImgs = 0) => (Rejected /\ ret.msg = "No PNGs in edof")

\* C9: the run ends with status 0 exactly when some unit returned "ok", with 1
\* when scans were found and none succeeded or when no scan folder matched, and
\* with 2 when the root, the list file or its timestamps are missing.
C9_ExitStatus ==
    mainpc = "exited" =>
        /\ exitStatus \in {0, 1, 2}
        /\ (exitStatus = 0) <=> SomeOk
        /\ (scans # <<>> /\ ~SomeOk) => exitStatus = 1
        /\ (scans = <<>> /\ dates # <<>>) => exitStatus = 1
        /\ (scans = <<>> /\ dates = <<>>) => exitStatus = 2

\* the lines of the list file that, trimmed, are one timestamp
TimestampLines(lines) ==
    SelectSeq(lines, LAMBDA l : \E t \in Timestamps : Strip(l) = <<t>>)

\* C12: read_dates returns, in file order, the trimmed text of exactly the
\* lines that after trimming are one timestamp; every other line is dropped.
C12_ReadDates ==
    listFile.read =>
        /\ Len(dates) = Len(TimestampLines(listFile.lines))
        /\ \A i \in DOMAIN dates : <<dates[i]>> = Strip(TimestampLines(listFile.lines)[i])

\* read_dates ran on a file holding a timestamp line, padded or not, together
\* with a line it drops
C12_Witness ==
    /\ listFile.read /\ dates # <<>>
    /\ Len(dates) < Len(listFile.lines)

\* the folders below the searched root that find_scans is to return
Matching(tree, ds) ==
    {e \in tree : /\ e.isDir
                  /\ IsSuffix(<<"__", "DISC3D">>, e.name)
                  /\ \E i \in DOMAIN ds : IsPrefix(<<ds[i], "__">>, e.name)}

C14_SameOutputPaths ==
    (folder.known /\ unit.psz # NoRef) =>
        /\ unit.psz = PszPath(scans[idx])
        /\ \A i \in DOMAIN calls :
              (calls[i].op = "save" /\ "path" \in DOMAIN calls[i].args) =>
                  calls[i].args.path = PszPath(scans[idx])
        /\ method = "B" =>
              \A u \in folder.uids : unit.cams_xml = B_CamsXmlPath(scans[idx], u)

\* C15: when the optimize step has issued its first call, a duplicate of the
\* chunk was attempted before it, and that attempt came after alignCameras
\* had returned successfully.
C15_QcBeforeOptimize ==
    /\ ("optimize" \in DOMAIN steps /\ StepStarted("optimize")) =>
           /\ "qc" \in DOMAIN steps
           /\ steps["qc"] # "pending"
    /\ (calls # <<>> /\ calls[1].step = "qc") =>
           /\ steps["match_align"] = "done"
           /\ steps["optimize"] = "pending"

\* C16: a QC snapshot chunk that is part of a saved project is disabled and
\* labelled <label>__QC_ALIGNED, and the calls of the later steps are made on
\* the original chunk: none of them is logged under the qc step.
C16_QcFrozenDisabled ==
    /\ (qc.exists /\ "qc" \in checkpointed) =>
           (~qc.enabled /\ qc.label = "DISC3D__QC_ALIGNED")
    /\ \A i \in DOMAIN calls :
           calls[i].op \in {"optimizeCameras", "buildDepthMaps", "buildModel", "exportCameras"}
               => calls[i].step # "qc"

\* C17: when chunk.copy() and chunk.duplicate() both fail, the warning is
\* printed, no exception leaves the qc step, the unit goes on with optimize,
\* and a unit that returns after that returns "ok".
C17_QcBestEffort ==
    /\ (\E i \in DOMAIN calls : calls[i].op = "duplicate" /\ calls[i].out # "ok") =>
           /\ Len(calls) = 3
           /\ calls[1].op = "copy" /\ calls[1].out # "ok"
           /\ calls[3].op = "print"
           /\ steps["qc"] = "failed"
           /\ pc = "optimize" /\ ~uncaught
    /\ ("qc" \in DOMAIN steps /\ steps["qc"] = "failed") =>
           /\ pc = "raised" => (calls # <<>> /\ calls[1].step # "qc")
           /\ pc = "returned" => ret.status = "ok"

\* a unit whose QC snapshot could not be duplicated returned "ok"
C17_Witness ==
    /\ pc = "returned" /\ ret.status = "ok"
    /\ "qc" \in DOMAIN steps /\ steps["qc"] = "failed"

ReconstructionOps ==
    {"matchPhotos", "alignCameras", "optimizeCameras", "buildDepthMaps", "buildModel",
     "exportCameras"}

\* C18: after a matchPhotos, alignCameras, optimizeCameras, buildDepthMaps,
\* buildModel or exportCameras call failed with an error that is not a
\* signature rejection, the step issues no further call of that operation.
C18_NoRetryOnOperationError ==
    \A i \in DOMAIN calls : \A j \in DOMAIN calls :
        (i < j /\ calls[i].op \in ReconstructionOps /\ calls[i].out = "Error")
            => calls[j].op # calls[i].op

\* C19: a rejected full-parameter optimizeCameras call is followed by a second
\* optimizeCameras call with fewer parameters and the same fit flags; the
\* optimize step is done only if one of the two calls succeeded, and failed,
\* with no later step started, if both were rejected.
C19_OptimizeFallback ==
    /\ (calls # <<>> /\ calls[1].op = "optimizeCameras" /\ calls[1].out = "TypeError") =>
           \/ pc = "optimizeFallback" /\ Len(calls) = 1
           \/ /\ Len(calls) >= 2
              /\ calls[2].op = "optimizeCameras" /\ calls[2].variant = 2
              /\ DOMAIN calls[2].args \subseteq DOMAIN calls[1].args
              /\ DOMAIN calls[2].args # DOMAIN calls[1].args
              /\ \A k \in ExplicitFitFlags : calls[2].args[k] = calls[1].args[k]
    /\ (calls # <<>> /\ calls[1].step = "optimize" /\ steps["optimize"] = "done") =>
           \E i \in DOMAIN calls : calls[i].op = "optimizeCameras" /\ calls[i].out = "ok"
    /\ (calls # <<>> /\ calls[1].op = "optimizeCameras"
          /\ \A i \in DOMAIN calls : calls[i].op = "optimizeCameras" => calls[i].out # "ok"
          /\ pc # "optimizeFallback") =>
           steps["optimize"] = "failed"
    /\ ("optimize" \in DOMAIN steps /\ steps["optimize"] = "failed") =>
           \A s \in DOMAIN steps : Earlier("optimize", s) => ~StepStarted(s)

ChainOps == {"buildDepthMaps", "buildModel"}

\* the keyword that tells the newer typed signature from the older one
NewerKeyword(op) == IF op = "buildDepthMaps" THEN "downscale" ELSE "source_data"

\* C20: the buildDepthMaps and buildModel variants are called in a fixed
\* order (two typed signatures, then the call without arguments), each only
\* after the one before it failed; nothing is called after a variant
\* succeeded, and the step has failed when the call without arguments fails.
C20_FallbackChain ==
    \A i \in DOMAIN calls : calls[i].op \in ChainOps =>
        LET c == calls[i]
        IN  /\ i <= 3 /\ c.variant = i
            /\ i > 1 => (calls[i - 1].op = c.op /\ calls[i - 1].out # "ok")
            /\ (c.args = NoArgs) <=> (i = 3)
            /\ i < 3 => ((NewerKeyword(c.op) \in DOMAIN c.args)
                            <=> (i = IF c.op = "buildDepthMaps" /\ method = "A" THEN 2 ELSE 1))
            /\ c.out = "ok" => \A j \in DOMAIN calls : j > i => calls[j].op = "save"
            /\ (i = 3 /\ c.out # "ok") => (steps[c.step] = "failed" /\ Len(calls) = 3)

\* a step completed through the call without arguments
C20_Witness ==
    \E i \in DOMAIN calls :
        /\ calls[i].op \in ChainOps /\ calls[i].variant = 3 /\ calls[i].out = "ok"
        /\ steps[calls[i].step] = "done"

\* C11: once a configuration input was found faulty (root or list file
\* missing, no valid timestamp in the list, mm.prj the engine cannot parse)
\* the run has ended and process_scan was not invoked for any unit.
C11_ConfigErrorAbortsRun ==
    configError # "none" =>
        /\ mainpc = "exited" /\ exitStatus # 0
        /\ pc = "idle" /\ idx = 1 /\ results = <<>>
        /\ ~folder.known /\ NoEngineCall

\* the run ended on an mm.prj file the engine could not parse
C11_Witness == configError = "crs" /\ mainpc = "exited"

\* the keyword arguments the two matchPhotos signatures have in common
MatchShared ==
    {"generic_preselection", "reference_preselection", "reference_preselection_mode",
     "keypoint_limit", "tiepoint_limit", "keep_keypoints", "guided_matching"}

\* C10: a fallback matchPhotos call is the second call of its step, follows a
\* rejected primary call, and carries the primary's arguments with only
\* accuracy=Highest replaced by downscale=0; a rejected primary call is followed
\* by the fallback, and a fallback that succeeded by alignCameras.
C10_MatchFallback ==
    /\ \A i \in DOMAIN calls :
          (calls[i].op = "matchPhotos" /\ calls[i].variant = 2) =>
              /\ i = 2
              /\ calls[1].op = "matchPhotos" /\ calls[1].variant = 1 /\ calls[1].out # "ok"
              /\ DOMAIN calls[2].args = (DOMAIN calls[1].args \ {"accuracy"}) \cup {"downscale"}
              /\ calls[1].args.accuracy = "Highest" /\ calls[2].args.downscale = 0
              /\ \A k \in MatchShared : calls[2].args[k] = calls[1].args[k]
              /\ calls[2].args.filter_stationary_points = calls[1].args.filter_stationary_points
              /\ calls[2].out = "ok" =>
                    \/ pc = "align" /\ steps["match_align"] = "pending"
                    \/ Len(calls) >= 3 /\ calls[3].op = "alignCameras"
    /\ (calls # <<>> /\ calls[1].op = "matchPhotos" /\ calls[1].out # "ok") =>
          \/ pc = "matchFallback" /\ Len(calls) = 1
          \/ Len(calls) >= 2 /\ calls[2].op = "matchPhotos" /\ calls[2].variant = 2

\* the match & align step completed through the fallback matchPhotos call
C10_Witness ==
    /\ Len(calls) >= 3
    /\ calls[2].op = "matchPhotos" /\ calls[2].variant = 2 /\ calls[2].out = "ok"
    /\ steps["match_align"] = "done" /\ "match_align" \in checkpointed

-----------------------------------------------------------------------------
(* Calibration policies *)

\* the first matchPhotos call of the unit has just been issued
FirstMatchIssued ==
    /\ calls # <<>>
    /\ calls[1].op = "matchPhotos"
    /\ Len(calls) = 1

\* C21: Method A, Lock policy: when matchPhotos is first called for a unit,
\* every sensor of the chunk has fixed_calibration = True, whatever the
\* outcome of the single assignments (one that raises included).
C21_LockedBeforeMatch ==
    (method = "A" /\ FirstMatchIssued) =>
        \A i \in 1..Len(sensors) : sensors[i].fixed

\* C22: Method B, Seed-and-Refine policy: when matchPhotos is first called for
\* a unit, every sensor of the chunk, however many addPhotos created, has the
\* seed focal length, all other intrinsic terms 0 and fixed_calibration = False.
C22_SeededBeforeMatch ==
    (method = "B" /\ FirstMatchIssued) =>
        \A i \in 1..Len(sensors) :
            /\ sensors[i].f = "seed"
            /\ sensors[i].others = "zero"
            /\ ~sensors[i].fixed

\* matchPhotos has been called for the unit in progress
MatchCalled == "match_align" \in DOMAIN steps /\ StepStarted("match_align")

\* C23: fit mask timing, both methods: the sensor calibration state
\* (user_calib, calibration, fixed_calibration) of a unit is written only
\* before the unit's first matchPhotos call; from the step that issues that
\* call on, no step of the unit writes a sensor calibration field.
C23_NoCalibrationWriteAfterMatch ==
    [][MatchCalled' => sensors' = sensors]_vars

\* a unit with sensors went through matching, alignment and optimisation
C23_Witness ==
    /\ MatchCalled
    /\ Len(sensors) > 0
    /\ steps["optimize"] = "done"

-----------------------------------------------------------------------------
(* Run-level settings *)

\* C25: hardware-acceleration selection, both methods: the engine's GPU mask
\* is written at most once during a batch, before the first unit is processed,
\* and never while units are being processed, however many units there are.
C25_GpuSetOncePerRun ==
    [][/\ gpuWrites' <= 1
       /\ mainpc = "loop" => gpuWrites' = gpuWrites]_vars

\* the project file of the unit in progress holds a completed model
HoldsCompletedModel ==
    \/ pszFile = "finalized"
    \/ pszFile = "current" /\ "build_mesh" \in checkpointed

\* C24: prior checkpoints are not corrupted, both methods: when process_scan
\* runs on a unit whose project file an earlier run finalized, the persisted
\* project at models/<dataset>.psz never regresses: whatever step the new run
\* is at or fails at, the file still holds a completed model.
C24_FinalizedProjectKept ==
    [][(pszFile = "finalized" /\ pszFile' # "unknown") => HoldsCompletedModel']_vars

-----------------------------------------------------------------------------
(* Trimming and results *)

\* the step in progress is the trim step of Method A and has issued calls
Trimming == method = "A" /\ calls # <<>> /\ calls[1].step = "trim"

CalledOp(ops) == \E i \in 1..Len(calls) : calls[i].op \in ops

DepthClearOps == {"clearDepthMaps", "depth_maps=None"}

\* C26: trimming in Method A: thin_project runs only after buildModel
\* completed and before the final save; with keep_depth no depth-map clearing
\* call is made, with keep_matches no removeMatches call is made, with neither
\* flag both are attempted; a failing removeMatches never changes the unit's
\* result from 'ok'.
C26_Trim ==
    /\ (method = "A" /\ pc = "trim") => steps["build_mesh"] = "done"
    /\ Trimming =>
         /\ steps["build_mesh"] = "done"
         /\ \A i \in 1..Len(calls) : calls[i].op = "save" => i = Len(calls)
         /\ args.keep_depth => ~CalledOp(DepthClearOps)
         /\ args.keep_matches => ~CalledOp({"removeMatches"})
         /\ (~args.keep_depth /\ ~args.keep_matches) =>
                CalledOp({"clearDepthMaps"}) /\ CalledOp({"removeMatches"})
         /\ ( /\ \E i \in 1..Len(calls) :
                    calls[i].op = "removeMatches" /\ calls[i].out = "Error"
              /\ Last(calls).op = "save" /\ Last(calls).out = "ok" )
            => pc = "returned" /\ ret.status = "ok"

\* the steps a unit's 'ok' stands for
RequiredForOk ==
    {"ingest", "import_reference", "match_align", "build_depth", "build_mesh"}
        \cup (IF method = "B" THEN {"export"} ELSE {})

\* C27: a result of 'ok' implies a built and persisted model, both methods:
\* process_scan returns 'ok' only if addPhotos, the reference/camera import,
\* matchPhotos, alignCameras, buildDepthMaps and buildModel each completed (by
\* primary or fallback call) and a doc.save() completed after buildModel; in
\* Method B also only if exportCameras completed.
C27_OkMeansBuiltAndSaved ==
    (pc = "returned" /\ ret.status = "ok") =>
        /\ \A s \in RequiredForOk : steps[s] = "done"
        /\ "build_mesh" \in checkpointed
        /\ pszFile = "current"

\* units that returned 'ok' through a fallback call: Method B by the legacy
\* exportCameras signature, Method A after a skipped optimizeCameras
C27_Witness ==
    /\ pc = "returned" /\ ret.status = "ok"
    /\ \/ method = "B" /\ \E i \in 1..Len(calls) :
                              calls[i].op = "exportCameras" /\ calls[i].variant = 2
       \/ method = "A" /\ steps["optimize"] = "failed"

-----------------------------------------------------------------------------
(* Bounded attempts and termination *)

\* number of calls of one of ops issued by the step in progress
CallCount(ops) == Cardinality({i \in 1..Len(calls) : calls[i].op \in ops})

BoundedAttempts ==
    /\ CallCount({"matchPhotos"}) <= 2
    /\ CallCount({"alignCameras"}) <= 2
    /\ CallCount({"copy", "duplicate"}) <= 2
    /\ CallCount({"optimizeCameras"}) <= 2
    /\ CallCount({"buildDepthMaps"}) <= 3
    /\ CallCount({"buildModel"}) <= 3
    /\ CallCount({"exportCameras"}) <= 2

\* a step that was completed or given up keeps its status, and no later call
\* of the unit belongs to it
StepNotReentered ==
    \A s \in DOMAIN steps \cap DOMAIN steps' :
        steps[s] # "pending" =>
            /\ steps'[s] = steps[s]
            /\ calls' # calls => (calls' = <<>> \/ Last(calls').step # s)

\* process_scan is entered for the folder at idx only, every folder before it
\* has its result, and the folders of the list are distinct
UnitVisitedOnce ==
    /\ (pc = "idle" /\ pc' = "called") => Len(results) = idx - 1
    /\ idx' = idx \/ (pc = "returned" /\ idx' = idx + 1 /\ Len(results') = idx)
    /\ \A i, j \in 1..Len(scans) : i # j => scans[i] # scans[j]

\* C28: bounded attempts and termination: given that every engine call returns
\* or raises, each step issues a bounded number of engine calls per unit
\* (matchPhotos, alignCameras, QC duplication, optimizeCameras, exportCameras at
\* most 2, buildDepthMaps and buildModel at most 3), no step is re-entered,
\* every unit is visited at most once, and the batch eventually terminates.
C28_BoundedAndTerminates ==
    /\ []BoundedAttempts
    /\ [][StepNotReentered /\ UnitVisitedOnce]_vars
    /\ <>(mainpc = "exited")

\* a batch of two units came to its end with both units visited
C28_Witness ==
    /\ mainpc = "exited"
    /\ Len(scans) = 2
    /\ Len(results) = 2
    /\ exitStatus = 0

====
